---- MODULE Spec2Model ----
(***************************************************************************)
(* serde_catch_all: an attribute macro that, for a string-valued enum with *)
(* one #[catch_all] variant, generates serde Deserialize and Serialize.    *)
(*                                                                         *)
(* The model has two layers, as the crate has:                             *)
(*   - macro expansion (serde_catch_all, analyze_enum, extract_serde_names)*)
(*     turns the enum item into the match arms of the generated code or    *)
(*     into a compile error;                                               *)
(*   - the generated code (visit_str, visit_borrowed_str, visit_string,    *)
(*     serialize) runs on texts and enum values.                           *)
(*                                                                         *)
(* A string is a sequence of one-character strings, so that copying,       *)
(* trimming and case folding are distinguishable operations.               *)
(***************************************************************************)
EXTENDS Integers, Sequences, FiniteSets, TLC

VARIABLES
    item,       \* the enum the attribute is applied to: a sequence of variants
    phase,      \* "source" | "expanded" | "rejected"
    info,       \* EnumInfo of an expanded enum, else NoInfo
    error,      \* the compile errors emitted (a sequence of [span, msg])
    input,      \* the text last handed to the deserializer: <<s>>, or <<>> for none
    how,        \* the visitor entry point that text was handed to, or "" for none
    value,      \* the enum value in hand (deserialized or constructed), or None
    wire,       \* the text produced by serializing value: <<s>>, or <<>> for none
    back        \* the value obtained by deserializing `wire` again, or None

vars == <<item, phase, info, error, input, how, value, wire, back>>

None == [none |-> TRUE]
NoInfo == [none |-> TRUE]

(***************************************************************************)
(* Bounds of the model.                                                    *)
(***************************************************************************)
MaxVariants == 3      \* variants per enum

(***************************************************************************)
(* Texts.                                                                  *)
(***************************************************************************)
IdentChars == <<"A", "B", "C", "D", "E", "F">>
EnumIdent == <<"E">>

\* The identifier of the i-th declared variant (identifiers of one enum are distinct).
Ident(i) == <<IdentChars[i]>>

\* Texts usable in #[serde(rename = "...")] and #[serde(alias = "...")].
NameTexts == { <<"x">>, <<"y">>, Ident(1) }

\* Texts handed to the deserializer: every identifier, every declared name, and
\* texts that differ from a declared name only by case or surrounding blanks.
InputTexts(n) ==
    { Ident(i) : i \in 1..n } \cup NameTexts \cup { <<"X">>, <<" ", "x">> }

\* Field types of a variant, as type paths (a sequence of segments); a type that
\* is not a path (a reference, a tuple) is the record NotAPath.
NotAPath == [kind |-> "Reference", segments |-> <<>>]
TypePath(segments) == [kind |-> "Path", segments |-> segments]
TyString == TypePath(<<"String">>)
TyStdString == TypePath(<<"std", "string", "String">>)
TyU32 == TypePath(<<"u32">>)

\* syn::Fields of a variant.
FieldsUnit == [kind |-> "Unit", tys |-> <<>>]
FieldsUnnamed(tys) == [kind |-> "Unnamed", tys |-> tys]
FieldsNamed(tys) == [kind |-> "Named", tys |-> tys]

\* Attributes of a variant, flattened in source order: #[catch_all], and the
\* entries of #[serde(...)] lists. "malformed" is a #[serde(...)] whose
\* arguments do not parse as a comma-separated list of metas; "other" is any
\* entry that is neither rename nor alias with a string literal.
AttrCatchAll == [key |-> "catch_all", val |-> <<>>]
AttrRename(t) == [key |-> "rename", val |-> t]
AttrAlias(t) == [key |-> "alias", val |-> t]
AttrMalformed == [key |-> "malformed", val |-> <<>>]
AttrOther == [key |-> "other", val |-> <<>>]

(***************************************************************************)
(* The enums the macro is applied to.                                      *)
(***************************************************************************)
RECURSIVE SeqsUpTo(_, _)
SeqsUpTo(S, n) ==
    IF n = 0 THEN { <<>> }
    ELSE LET shorter == SeqsUpTo(S, n - 1)
         IN  shorter \cup { Append(q, e) : q \in { r \in shorter : Len(r) = n - 1 }, e \in S }

\* The rename/alias entries a unit variant is declared with: none, a rename, an
\* alias, two aliases (as OptionC of examples/main.rs), two renames, a rename
\* with an alias, an alias that is the identifier of the first variant, and an
\* entry the macro ignores.
SerdeAttrLists ==
    { <<>>,
      <<AttrRename(<<"x">>)>>,
      <<AttrAlias(<<"x">>)>>,
      <<AttrAlias(<<"y">>)>>,
      <<AttrAlias(<<"x">>), AttrAlias(<<"y">>)>>,
      <<AttrRename(<<"y">>), AttrRename(<<"x">>)>>,
      <<AttrAlias(<<"y">>), AttrRename(<<"x">>)>>,
      <<AttrAlias(Ident(1))>>,
      <<AttrOther>> }

\* What one variant can look like: its attributes and its fields.
VariantShapes ==
    \* unit variants with any rename/alias entries
    { [attrs |-> a, fields |-> FieldsUnit] : a \in SerdeAttrLists }
    \* a unit variant with an unparsable serde attribute
    \cup { [attrs |-> <<AttrMalformed>>, fields |-> FieldsUnit] }
    \* a variant without #[catch_all] that carries a field
    \cup { [attrs |-> <<>>, fields |-> FieldsUnnamed(<<TyString>>)] }
    \* variants marked #[catch_all], of every shape; one of them also carries
    \* a serde attribute
    \cup { [attrs |-> <<AttrCatchAll>>, fields |-> f] :
             f \in { FieldsUnit,
                     FieldsUnnamed(<<TyString>>),
                     FieldsUnnamed(<<TyU32>>),
                     FieldsUnnamed(<<NotAPath>>),
                     FieldsUnnamed(<<TyString, TyString>>),
                     FieldsNamed(<<TyString>>) } }
    \cup { [attrs |-> <<AttrAlias(<<"x">>), AttrCatchAll>>,
            fields |-> FieldsUnnamed(<<TyStdString>>)] }

\* An enum item: its variants in declaration order, each with its identifier.
Items ==
    { [i \in 1..Len(q) |-> [ident |-> Ident(i), attrs |-> q[i].attrs, fields |-> q[i].fields]] :
        q \in SeqsUpTo(VariantShapes, MaxVariants) }

(***************************************************************************)
(* Macro expansion.                                                        *)
(***************************************************************************)
MsgCatchAllShape == "the catch_all variant must be a tuple variant with exactly one field of type String"
MsgDuplicate == "only one catch_all variant is allowed"
MsgNonUnit == "non-catch-all variants must be unit variants"
MsgMissing == "you must provide exactly one catch_all variant with a single String field"
MsgNotString == "the catch_all variant must be a tuple with a single String field"
MsgParse == "serde attribute arguments do not parse"

Err(span, msg) == [ok |-> FALSE, err |-> [span |-> span, msg |-> msg]]

is_catch_all_attr(a) == a.key = "catch_all"

is_string_type(ty) ==
    IF ty.kind = "Path"
    THEN Len(ty.segments) > 0 /\ ty.segments[Len(ty.segments)] = "String"
    ELSE FALSE

variant_path(enum_ident, v) == <<enum_ident, v.ident>>

\* What an error is spanned to: the enum's identifier, or one of its variants.
SpanOfEnum(enum_ident) == <<enum_ident>>
SpanOfVariant(enum_ident, v) == <<enum_ident, v.ident>>

\* The loop of extract_serde_names over the attribute entries from the k-th on.
RECURSIVE extract_from(_, _, _, _, _)
extract_from(span, attrs, k, primary, aliases) ==
    IF k > Len(attrs)
    THEN [ok |-> TRUE, primary |-> primary, aliases |-> aliases]
    ELSE LET a == attrs[k]
         IN  CASE a.key = "malformed" -> Err(span, MsgParse)
               [] a.key = "rename" -> extract_from(span, attrs, k + 1, <<a.val>>, aliases)
               [] a.key = "alias" -> extract_from(span, attrs, k + 1, primary, Append(aliases, a.val))
               [] OTHER -> extract_from(span, attrs, k + 1, primary, aliases)

\* Returns (primary_name, aliases) or a parse error. `primary` is an Option:
\* <<>> for None, <<t>> for Some(t).
extract_serde_names(span, attrs, default_name) ==
    LET r == extract_from(span, attrs, 1, <<>>, <<>>)
    IN  IF ~r.ok THEN r
        ELSE [ok |-> TRUE,
              primary_name |-> IF r.primary = <<>> THEN default_name ELSE r.primary[1],
              aliases |-> r.aliases]

\* The locals of analyze_enum before its loop.
AnalyzeStart ==
    [ok |-> TRUE, known_arms |-> <<>>, aliases_arms |-> <<>>,
     catch_all_path |-> <<>>, catch_all_is_string |-> FALSE]

\* analyze_variant without the check that a Known variant is a unit variant.
analyze_variant_no_unit_check(enum_ident, st, v) ==
    IF \E k \in 1..Len(v.attrs) : is_catch_all_attr(v.attrs[k])
    THEN IF ~(v.fields.kind = "Unnamed" /\ Len(v.fields.tys) = 1)
         THEN Err(SpanOfVariant(enum_ident, v), MsgCatchAllShape)
         ELSE IF st.catch_all_path # <<>>
         THEN Err(SpanOfVariant(enum_ident, v), MsgDuplicate)
         ELSE [st EXCEPT !.catch_all_is_string = is_string_type(v.fields.tys[1]),
                         !.catch_all_path = <<variant_path(enum_ident, v)>>]
    ELSE LET names == extract_serde_names(SpanOfVariant(enum_ident, v), v.attrs, v.ident)
             path == variant_path(enum_ident, v)
         IN  IF ~names.ok THEN names
             ELSE [st EXCEPT
                     !.known_arms = Append(@, [lit |-> names.primary_name, path |-> path]),
                     !.aliases_arms =
                         @ \o [j \in 1..Len(names.aliases) |->
                                 [lit |-> names.aliases[j], path |-> path]]]

\* analyze_variant with the duplicate check ahead of the shape check.
analyze_variant_duplicate_first(enum_ident, st, v) ==
    IF \E k \in 1..Len(v.attrs) : is_catch_all_attr(v.attrs[k])
    THEN IF st.catch_all_path # <<>>
         THEN Err(SpanOfVariant(enum_ident, v), MsgDuplicate)
         ELSE IF ~(v.fields.kind = "Unnamed" /\ Len(v.fields.tys) = 1)
         THEN Err(SpanOfVariant(enum_ident, v), MsgCatchAllShape)
         ELSE [st EXCEPT !.catch_all_is_string = is_string_type(v.fields.tys[1]),
                         !.catch_all_path = <<variant_path(enum_ident, v)>>]
    ELSE IF v.fields.kind # "Unit"
    THEN Err(SpanOfVariant(enum_ident, v), MsgNonUnit)
    ELSE LET names == extract_serde_names(SpanOfVariant(enum_ident, v), v.attrs, v.ident)
             path == variant_path(enum_ident, v)
         IN  IF ~names.ok THEN names
             ELSE [st EXCEPT
                     !.known_arms = Append(@, [lit |-> names.primary_name, path |-> path]),
                     !.aliases_arms =
                         @ \o [j \in 1..Len(names.aliases) |->
                                 [lit |-> names.aliases[j], path |-> path]]]

\* One iteration of the loop of analyze_enum, on variant v.
analyze_variant(enum_ident, st, v) ==
    IF \E k \in 1..Len(v.attrs) : is_catch_all_attr(v.attrs[k])
    THEN IF ~(v.fields.kind = "Unnamed" /\ Len(v.fields.tys) = 1)
         THEN Err(SpanOfVariant(enum_ident, v), MsgCatchAllShape)
         ELSE IF st.catch_all_path # <<>>
         THEN Err(SpanOfVariant(enum_ident, v), MsgDuplicate)
         ELSE [st EXCEPT !.catch_all_is_string = is_string_type(v.fields.tys[1]),
                         !.catch_all_path = <<variant_path(enum_ident, v)>>]
    ELSE IF v.fields.kind # "Unit"
    THEN Err(SpanOfVariant(enum_ident, v), MsgNonUnit)
    ELSE LET names == extract_serde_names(SpanOfVariant(enum_ident, v), v.attrs, v.ident)
             path == variant_path(enum_ident, v)
         IN  IF ~names.ok THEN names
             ELSE [st EXCEPT
                     !.known_arms = Append(@, [lit |-> names.primary_name, path |-> path]),
                     !.aliases_arms =
                         @ \o [j \in 1..Len(names.aliases) |->
                                 [lit |-> names.aliases[j], path |-> path]]]

\* The loop of analyze_enum going on after an error, so that the error of the
\* last failing variant is the one returned.
RECURSIVE analyze_from_keep_going(_, _, _, _)
analyze_from_keep_going(enum_ident, variants, k, st) ==
    IF k > Len(variants) THEN st
    ELSE LET from == IF st.ok THEN st ELSE AnalyzeStart
             next == analyze_variant(enum_ident, from, variants[k])
         IN  IF ~next.ok \/ st.ok
             THEN analyze_from_keep_going(enum_ident, variants, k + 1, next)
             ELSE analyze_from_keep_going(enum_ident, variants, k + 1, st)

\* The loop of analyze_enum over the variants from the k-th on; an error returns.
RECURSIVE analyze_from(_, _, _, _)
analyze_from(enum_ident, variants, k, st) ==
    IF k > Len(variants) THEN st
    ELSE LET next == analyze_variant(enum_ident, st, variants[k])
         IN  IF ~next.ok THEN next
             ELSE analyze_from(enum_ident, variants, k + 1, next)

analyze_enum(enum_ident, variants) ==
    LET st == analyze_from(enum_ident, variants, 1, AnalyzeStart)
    IN  IF ~st.ok THEN st
        ELSE IF st.catch_all_path = <<>>
        THEN Err(SpanOfEnum(enum_ident), MsgMissing)
        ELSE [ok |-> TRUE,
              known_arms |-> st.known_arms,
              aliases_arms |-> st.aliases_arms,
              catch_all_variant_path |-> st.catch_all_path[1],
              catch_all_binding_ty_is_string |-> st.catch_all_is_string]

\* The macro: EnumInfo of the enum, or the compile error.
serde_catch_all(variants) ==
    LET r == analyze_enum(EnumIdent, variants)
    IN  IF ~r.ok THEN r
        ELSE IF ~r.catch_all_binding_ty_is_string
        THEN Err(r.catch_all_variant_path, MsgNotString)
        ELSE r

(***************************************************************************)
(* The generated code.                                                     *)
(***************************************************************************)
\* An enum value: the variant's path and its fields (<<>> for a unit variant,
\* <<s>> for the catch-all variant holding the string s).
UnitValue(path) == [path |-> path, fields |-> <<>>]
TupleValue(path, s) == [path |-> path, fields |-> <<s>>]

\* str::to_owned and String::as_str: a new string with the same characters, and
\* a view of the string's characters.
to_owned(v) == [i \in 1..Len(v) |-> v[i]]
as_str(v) == SubSeq(v, 1, Len(v))

\* A lookup in which the arm written last wins, as in a map filled by inserts.
RECURSIVE last_arm(_, _, _)
last_arm(arms, k, v) ==
    IF k > Len(arms) THEN <<>>
    ELSE LET later == last_arm(arms, k + 1, v)
         IN  IF later # <<>> THEN later
             ELSE IF arms[k].lit = v THEN <<arms[k]>>
             ELSE <<>>

\* A match on a string: the arms are tried in the order written, and the first
\* arm whose literal equals the scrutinee is taken. <<>> when none is.
RECURSIVE first_arm(_, _, _)
first_arm(arms, k, v) ==
    IF k > Len(arms) THEN <<>>
    ELSE IF arms[k].lit = v THEN <<arms[k]>>
    ELSE first_arm(arms, k + 1, v)

\* The arms with the alias arms written ahead of the name arms.
match_arms_aliases_first(inf) == inf.aliases_arms \o inf.known_arms

\* The arms of the generated match: #(#known_match_arms)* #(#alias_match_arms)*
match_arms(inf) == inf.known_arms \o inf.aliases_arms

\* visit_str matching without regard to case.
to_lowercase(v) ==
    [i \in 1..Len(v) |->
        CASE v[i] = "X" -> "x" [] v[i] = "Y" -> "y" [] OTHER -> v[i]]

visit_str_caseless(inf, v) ==
    LET hit == first_arm(match_arms(inf), 1, to_lowercase(v))
    IN  IF hit # <<>> THEN UnitValue(hit[1].path)
        ELSE TupleValue(inf.catch_all_variant_path, to_owned(v))

visit_str(inf, v) ==
    LET hit == first_arm(match_arms(inf), 1, v)
    IN  IF hit # <<>> THEN UnitValue(hit[1].path)
        ELSE TupleValue(inf.catch_all_variant_path, to_owned(v))

visit_borrowed_str(inf, v) == visit_str(inf, v)

\* visit_string generated without the alias arms.
visit_string_without_aliases(inf, v) ==
    LET hit == first_arm(inf.known_arms, 1, as_str(v))
    IN  IF hit # <<>> THEN UnitValue(hit[1].path)
        ELSE TupleValue(inf.catch_all_variant_path, v)

visit_string(inf, v) ==
    LET hit == first_arm(match_arms(inf), 1, as_str(v))
    IN  IF hit # <<>> THEN UnitValue(hit[1].path)
        ELSE TupleValue(inf.catch_all_variant_path, v)

\* A match on the enum value: the arm of the value's variant.
RECURSIVE first_path_arm(_, _, _)
first_path_arm(arms, k, path) ==
    IF k > Len(arms) THEN <<>>
    ELSE IF arms[k].path = path THEN <<arms[k]>>
    ELSE first_path_arm(arms, k + 1, path)

\* The text handed to serializer.serialize_str.
serialize(inf, self) ==
    LET hit == first_path_arm(inf.known_arms, 1, self.path)
    IN  IF hit # <<>> THEN hit[1].lit
        ELSE self.fields[1]

\* The values of the enum a program can construct.
Values(inf, texts) ==
    { UnitValue(inf.known_arms[k].path) : k \in 1..Len(inf.known_arms) }
    \cup { TupleValue(inf.catch_all_variant_path, t) : t \in texts }

(***************************************************************************)
(* The state machine.                                                      *)
(***************************************************************************)
Init ==
    /\ item \in Items
    /\ phase = "source"
    /\ info = NoInfo
    /\ error = <<>>
    /\ input = <<>>
    /\ how = ""
    /\ value = None
    /\ wire = <<>>
    /\ back = None

\* The compiler expands the attribute on the enum.
Expand ==
    /\ phase = "source"
    /\ LET r == serde_catch_all(item)
       IN  IF r.ok
           THEN /\ phase' = "expanded"
                /\ info' = r
                /\ error' = error
           ELSE /\ phase' = "rejected"
                /\ info' = info
                /\ error' = Append(error, r.err)
    /\ UNCHANGED <<item, input, how, value, wire, back>>

\* The generated code keeps no state between calls, so a behaviour follows one
\* value: it is deserialized from a text or constructed, then serialized, and
\* the serialized text is deserialized again.

\* A deserializer hands a text to one of the visitor's three entry points.
DeserializeStr ==
    /\ phase = "expanded"
    /\ value = None
    /\ \E s \in InputTexts(Len(item)) :
         /\ input' = <<s>>
         /\ value' = visit_str(info, s)
    /\ how' = "visit_str"
    /\ wire' = <<>>
    /\ back' = None
    /\ UNCHANGED <<item, phase, info, error>>

DeserializeBorrowedStr ==
    /\ phase = "expanded"
    /\ value = None
    /\ \E s \in InputTexts(Len(item)) :
         /\ input' = <<s>>
         /\ value' = visit_borrowed_str(info, s)
    /\ how' = "visit_borrowed_str"
    /\ wire' = <<>>
    /\ back' = None
    /\ UNCHANGED <<item, phase, info, error>>

DeserializeString ==
    /\ phase = "expanded"
    /\ value = None
    /\ \E s \in InputTexts(Len(item)) :
         /\ input' = <<s>>
         /\ value' = visit_string(info, s)
    /\ how' = "visit_string"
    /\ wire' = <<>>
    /\ back' = None
    /\ UNCHANGED <<item, phase, info, error>>

\* The program constructs a value of the enum itself.
Construct ==
    /\ phase = "expanded"
    /\ value = None
    /\ value' \in Values(info, InputTexts(Len(item)))
    /\ input' = <<>>
    /\ how' = ""
    /\ wire' = <<>>
    /\ back' = None
    /\ UNCHANGED <<item, phase, info, error>>

\* The value in hand is serialized.
Serialize ==
    /\ phase = "expanded"
    /\ value # None
    /\ wire = <<>>
    /\ wire' = <<serialize(info, value)>>
    /\ UNCHANGED <<item, phase, info, error, input, how, value, back>>

\* The serialized text is deserialized again.
Redeserialize ==
    /\ phase = "expanded"
    /\ wire # <<>>
    /\ back = None
    /\ back' \in { visit_str(info, wire[1]), visit_borrowed_str(info, wire[1]),
                   visit_string(info, wire[1]) }
    /\ UNCHANGED <<item, phase, info, error, input, how, value, wire>>

Next ==
    \/ Expand
    \/ DeserializeStr
    \/ DeserializeBorrowedStr
    \/ DeserializeString
    \/ Construct
    \/ Serialize
    \/ Redeserialize

Spec == Init /\ [][Next]_vars

(***************************************************************************)
(* Vocabulary of the properties, read off the enum item itself (not off    *)
(* the tables the macro builds).                                           *)
(***************************************************************************)
Min(S) == CHOOSE m \in S : \A o \in S : m <= o
Max(S) == CHOOSE m \in S : \A o \in S : m >= o

Marked(v) == \E k \in 1..Len(v.attrs) : v.attrs[k].key = "catch_all"
CatchAlls == { i \in 1..Len(item) : Marked(item[i]) }
Knowns == { i \in 1..Len(item) : ~Marked(item[i]) }
PathOf(i) == <<EnumIdent, item[i].ident>>

\* The canonical wire name of a Known variant: its rename if declared (the
\* last one when several are), else its identifier.
WireName(i) ==
    LET rs == { k \in 1..Len(item[i].attrs) : item[i].attrs[k].key = "rename" }
    IN  IF rs = {} THEN item[i].ident ELSE item[i].attrs[Max(rs)].val

AliasesOf(i) ==
    { item[i].attrs[k].val : k \in { j \in 1..Len(item[i].attrs) : item[i].attrs[j].key = "alias" } }

KeysOf(i) == { WireName(i) } \cup AliasesOf(i)
AllKeys == UNION { KeysOf(i) : i \in Knowns }

\* The Known variants that declare text s as a decode key.
Holders(s) == { i \in Knowns : s \in KeysOf(i) }

Accepted == phase = "expanded"
Decoded == Accepted /\ input # <<>> /\ value # None
Encoded == Accepted /\ value # None /\ wire # <<>>

(***************************************************************************)
(* Vocabulary of the validation properties.                                *)
(***************************************************************************)
OneUnnamedField(i) == item[i].fields.kind = "Unnamed" /\ Len(item[i].fields.tys) = 1
Unparsable(i) == \E k \in 1..Len(item[i].attrs) : item[i].attrs[k].key = "malformed"

\* The message of the check that variant i fails, "" when it passes them all.
VariantError(i) ==
    IF Marked(item[i])
    THEN IF ~OneUnnamedField(i) THEN MsgCatchAllShape
         ELSE IF \E j \in CatchAlls : j < i THEN MsgDuplicate
         ELSE ""
    ELSE IF item[i].fields.kind # "Unit" THEN MsgNonUnit
         ELSE IF Unparsable(i) THEN MsgParse
         ELSE ""

Failing == { i \in 1..Len(item) : VariantError(i) # "" }

\* The structural violations present in the enum.
Violations ==
    (IF CatchAlls = {} THEN { "missing catch-all" } ELSE {})
    \cup (IF Cardinality(CatchAlls) > 1 THEN { "duplicate catch-all" } ELSE {})
    \cup (IF \E c \in CatchAlls :
                ~(OneUnnamedField(c) /\ is_string_type(item[c].fields.tys[1]))
          THEN { "catch-all shape" } ELSE {})
    \cup (IF \E i \in Knowns : item[i].fields.kind # "Unit"
          THEN { "non-unit Known variant" } ELSE {})

ViolationOf(msg) ==
    CASE msg = MsgMissing -> "missing catch-all"
      [] msg = MsgDuplicate -> "duplicate catch-all"
      [] msg = MsgCatchAllShape -> "catch-all shape"
      [] msg = MsgNotString -> "catch-all shape"
      [] msg = MsgNonUnit -> "non-unit Known variant"
      [] OTHER -> "other"

Reported == { ViolationOf(error[k].msg) : k \in 1..Len(error) } \ { "other" }

Rejected == phase = "rejected"

(***************************************************************************)
(* C1. For every accepted enum and every Known variant V with canonical    *)
(* wire name N: deserializing N gives V, and serializing V gives N.        *)
(* Stated as claimed; it fails when another variant declared earlier has   *)
(* N as its wire name (the macro accepts colliding keys).                  *)
(***************************************************************************)
C1_CanonicalNameRoundTrip ==
    \A i \in Knowns :
        /\ (Decoded /\ input[1] = WireName(i)) => value = UnitValue(PathOf(i))
        /\ (Encoded /\ value = UnitValue(PathOf(i))) => wire[1] = WireName(i)

(***************************************************************************)
(* C2. For every accepted enum and every alias A declared on a Known       *)
(* variant V with canonical wire name N: deserializing A gives V, and      *)
(* serializing that value gives N. Stated as claimed; it fails when A is   *)
(* also a key of a variant whose arm comes earlier.                        *)
(***************************************************************************)
C2_AliasDecodesToItsVariant ==
    \A i \in Knowns :
        (Decoded /\ input[1] \in AliasesOf(i)) =>
            /\ value = UnitValue(PathOf(i))
            /\ wire # <<>> => wire[1] = WireName(i)

(***************************************************************************)
(* C3. For every accepted enum and every text S that is neither the wire   *)
(* name nor an alias of a Known variant: deserializing S gives the         *)
(* catch-all variant holding exactly S, and serializing the catch-all      *)
(* variant holding S gives exactly S.                                      *)
(***************************************************************************)
C3_UnknownTextIsKeptVerbatim ==
    Accepted =>
        \A c \in CatchAlls :
            /\ (Decoded /\ input[1] \notin AllKeys) =>
                   value = TupleValue(PathOf(c), input[1])
            /\ (Encoded /\ value.path = PathOf(c) /\ value.fields[1] \notin AllKeys) =>
                   wire[1] = value.fields[1]

\* An unknown text that differs from a declared key only by a leading blank
\* was deserialized and serialized again.
C3_Witness ==
    /\ Decoded
    /\ wire # <<>>
    /\ input[1] = <<" ", "x">>
    /\ <<"x">> \in AllKeys

(***************************************************************************)
(* C4. For every accepted enum and every input text S:                     *)
(* decode(encode(decode(S))) = decode(S). Stated as claimed; it fails when *)
(* the wire name of decode(S) is also the wire name of a variant declared  *)
(* earlier.                                                                *)
(***************************************************************************)
C4_DecodeEncodeDecodeIsStable ==
    (Decoded /\ back # None) => back = value

(***************************************************************************)
(* C10. For every accepted enum and every text S, visit_str,               *)
(* visit_borrowed_str and visit_string return the same value, the held     *)
(* string of the catch-all variant included.                               *)
(***************************************************************************)
C10_EntryPointsAgree ==
    Decoded =>
        /\ value = visit_str(info, input[1])
        /\ value = visit_borrowed_str(info, input[1])
        /\ value = visit_string(info, to_owned(input[1]))

\* visit_string was handed an owned text that no arm matches.
C10_Witness ==
    /\ Decoded
    /\ how = "visit_string"
    /\ value.fields = <<input[1]>>

(***************************************************************************)
(* C8. When a text is a decode key of two different Known variants, the    *)
(* enum is still accepted and deserializing the text gives the variant     *)
(* declared earlier. Stated as claimed; it fails when the text is an alias *)
(* of the earlier variant and the wire name of the later one.              *)
(***************************************************************************)
Colliding == Decoded /\ Cardinality(Holders(input[1])) >= 2

C8_EarlierDeclaredVariantWins ==
    Colliding => value = UnitValue(PathOf(Min(Holders(input[1]))))

\* C8 as amended: the enum is accepted (when it has no structural violation
\* and its serde attributes parse), and the text gives the variant of
\* the first arm of the generated match, where the wire names of all variants
\* (in declaration order) come before all aliases (in declaration order): the
\* earliest declared variant whose wire name the text is, and if it is no
\* variant's wire name, the earliest declared variant that has it as an alias.
C8_NamesBeforeAliasesThenDeclarationOrder ==
    \A s \in AllKeys :
        (Cardinality(Holders(s)) >= 2 /\ phase # "source") =>
            /\ (Violations = {} /\ \A i \in Knowns : ~Unparsable(i)) => Accepted
            /\ (Decoded /\ input[1] = s) =>
                   LET named == { i \in Holders(s) : WireName(i) = s }
                   IN  value = UnitValue(PathOf(IF named # {} THEN Min(named)
                                                ELSE Min(Holders(s))))

\* A text that is an alias of an earlier variant and the wire name of a later
\* one was deserialized.
C8_Witness ==
    /\ Colliding
    /\ \E i, j \in Holders(input[1]) :
          i < j /\ WireName(i) # input[1] /\ WireName(j) = input[1]

(***************************************************************************)
(* C9. When a text is a decode key of two different Known variants,        *)
(* deserializing it silently gives the variant of the colliding table      *)
(* entry registered last. Stated as claimed; the generated match takes the *)
(* first matching arm.                                                     *)
(***************************************************************************)
\* The positions in the table (name entries, then alias entries) of the
\* entries for text s.
EntriesFor(s) ==
    { k \in 1..Len(match_arms(info)) : match_arms(info)[k].lit = s }

C9_LastRegisteredEntryWins ==
    Colliding =>
        /\ error = <<>>
        /\ value = UnitValue(match_arms(info)[Max(EntriesFor(input[1]))].path)

\* C9 as amended: no error is emitted, and the text gives the variant of the
\* colliding entry that comes first in the table.
C9_FirstRegisteredEntryWins ==
    Colliding =>
        /\ error = <<>>
        /\ EntriesFor(input[1]) # {}
        /\ value = UnitValue(match_arms(info)[Min(EntriesFor(input[1]))].path)

\* A text with entries of two different variants was deserialized.
C9_Witness ==
    /\ Colliding
    /\ match_arms(info)[Min(EntriesFor(input[1]))].path
         # match_arms(info)[Max(EntriesFor(input[1]))].path

(***************************************************************************)
(* C5. When validation fails, the failure reports every structural         *)
(* violation present in the enum, not only the first one. Stated as        *)
(* claimed; analyze_enum returns at the first error.                       *)
(***************************************************************************)
C5_AllViolationsReported ==
    Rejected => Reported = Violations

\* C5 as amended: the failure reports exactly one error: that of the first
\* variant, in declaration order, that fails a check (for a marked variant,
\* wrong shape, then duplicate; for an unmarked one, non-unit, then an
\* unparsable serde attribute); when no variant fails, the missing catch-all;
\* and when there is a catch-all, that its field is not a String.
C5_OnlyFirstViolationReported ==
    Rejected =>
        /\ Len(error) = 1
        /\ error[1] =
             IF Failing # {}
             THEN [span |-> PathOf(Min(Failing)), msg |-> VariantError(Min(Failing))]
             ELSE IF CatchAlls = {}
             THEN [span |-> <<EnumIdent>>, msg |-> MsgMissing]
             ELSE [span |-> PathOf(Min(CatchAlls)), msg |-> MsgNotString]

\* An enum with at least two different violations was rejected.
C5_Witness ==
    Rejected /\ Cardinality(Violations) >= 2 /\ Cardinality(Failing) >= 2

(***************************************************************************)
(* C6. For every enum without a catch-all variant, whatever the shapes of  *)
(* its variants, expansion fails with the missing-catch-all error. Stated  *)
(* as claimed; a non-unit variant is reported instead.                     *)
(***************************************************************************)
C6_NoCatchAllGivesMissingError ==
    (CatchAlls = {} /\ phase # "source") =>
        Rejected /\ error[1].msg = MsgMissing

\* C6 as amended: expansion fails; the error is the missing-catch-all error
\* exactly when every variant is a unit variant whose serde attributes parse,
\* and otherwise the error of the first variant that is not.
C6_MissingErrorOnlyIfVariantsPass ==
    (CatchAlls = {} /\ phase # "source") =>
        /\ Rejected
        /\ Len(error) = 1
        /\ error[1].msg = MsgMissing <=>
               \A i \in 1..Len(item) : item[i].fields.kind = "Unit" /\ ~Unparsable(i)
        /\ error[1].msg # MsgMissing =>
               \E i \in 1..Len(item) :
                   /\ item[i].fields.kind # "Unit" \/ Unparsable(i)
                   /\ \A j \in 1..(i - 1) : item[j].fields.kind = "Unit" /\ ~Unparsable(j)
                   /\ error[1].span = PathOf(i)
                   /\ error[1].msg = IF item[i].fields.kind # "Unit" THEN MsgNonUnit
                                     ELSE MsgParse

\* An enum of several unit variants and no catch-all was rejected.
C6_Witness ==
    /\ CatchAlls = {}
    /\ Len(item) >= 2
    /\ Rejected
    /\ error[1].msg = MsgMissing

(***************************************************************************)
(* C7. For every enum with two catch-all variants, whatever their payload  *)
(* shapes and the shapes of the other variants, expansion fails with the   *)
(* duplicate-catch-all error. Stated as claimed; an earlier failing        *)
(* variant, or the shape of the second catch-all, is reported instead.     *)
(***************************************************************************)
C7_TwoCatchAllsGiveDuplicateError ==
    (Cardinality(CatchAlls) >= 2 /\ phase # "source") =>
        Rejected /\ error[1].msg = MsgDuplicate

SecondCatchAll == Min(CatchAlls \ { Min(CatchAlls) })

\* C7 as amended: expansion fails; the error is the duplicate-catch-all error,
\* spanned to the second catch-all variant, exactly when that variant has one
\* unnamed field (of any type) and every variant declared before it passes its
\* checks (the first catch-all has one unnamed field, of any type; the others
\* are unit variants whose serde attributes parse).
C7_DuplicateErrorOnlyIfReached ==
    (Cardinality(CatchAlls) >= 2 /\ phase # "source") =>
        /\ Rejected
        /\ Len(error) = 1
        /\ error[1].msg = MsgDuplicate <=>
               /\ OneUnnamedField(SecondCatchAll)
               /\ \A i \in 1..(SecondCatchAll - 1) :
                      IF Marked(item[i]) THEN OneUnnamedField(i)
                      ELSE item[i].fields.kind = "Unit" /\ ~Unparsable(i)
        /\ error[1].msg = MsgDuplicate => error[1].span = PathOf(SecondCatchAll)

\* An enum whose first catch-all holds a u32 and whose second is well-formed
\* was rejected as a duplicate.
C7_Witness ==
    /\ Cardinality(CatchAlls) >= 2
    /\ Rejected
    /\ error[1].msg = MsgDuplicate
    /\ item[Min(CatchAlls)].fields.tys[1] = TyU32
    /\ item[SecondCatchAll].fields.tys[1] = TyString

====
